---- MODULE Spec2Model ----
(***************************************************************************)
(* Model of the PMS backend (src/main.py, src/schemas.py): the KPI         *)
(* registry (collection 'kpi'), the snapshot collection ('kpi_data'), the  *)
(* scoring functions and the HTTP handlers that read and write them.       *)
(*                                                                         *)
(* Numbers.  Every number of the program is a Python float.  A float is    *)
(* modelled as a binary floating-point number <<m, e>> = m * 2^e with a    *)
(* significand of MantissaBits bits, and every arithmetic operation rounds *)
(* its exact result to the nearest such number, ties to even, as IEEE-754  *)
(* does.  The exponent is unbounded (no overflow, subnormals, inf or NaN). *)
(* Python's float has 53 significand bits; the model keeps the rounding    *)
(* and narrows the significand so that the integers stay small.            *)
(*                                                                         *)
(* Left out: the free-text fields name and unit of a KPI, the kpi_id       *)
(* field of the KpiData body (the handler never reads it), and the         *)
(* endpoints / and /test, which touch neither collection.                  *)
(***************************************************************************)
EXTENDS Integers, Sequences, FiniteSets, TLC

\* ------------------------------------------------------------------ bounds
MantissaBits == 8   \* significand width of the modelled float
MaxKpis == 2        \* KPIs the registry may hold
MaxClock == 3       \* writes (each stamps a fresh datetime.now)

\* ------------------------------------------------------- float arithmetic
RECURSIVE Pow2(_)
Pow2(k) == IF k <= 0 THEN 1 ELSE 2 * Pow2(k - 1)

Abs(n) == IF n < 0 THEN -n ELSE n

Sign(n) == IF n < 0 THEN -1 ELSE 1

Max2(a, b) == IF a >= b THEN a ELSE b

Min2(a, b) == IF a <= b THEN a ELSE b

RECURSIVE BitLen(_)
BitLen(n) == IF n = 0 THEN 0 ELSE 1 + BitLen(n \div 2)

\* the unique representation of m * 2^e: m odd, or <<0, 0>>
RECURSIVE Canon(_, _)
Canon(m, e) ==
    IF m = 0 THEN <<0, 0>>
    ELSE IF m % 2 = 0 THEN Canon(m \div 2, e + 1)
    ELSE <<m, e>>

\* n * 2^e rounded to MantissaBits significant bits, round-half-to-even
RoundP(n, e) ==
    LET a == Abs(n)
        k == Max2(0, BitLen(a) - MantissaBits)
        q == a \div Pow2(k)
        r == a % Pow2(k)
        half == Pow2(k - 1)
        up == k > 0 /\ (r > half \/ (r = half /\ q % 2 = 1))
    IN  Canon(Sign(n) * (IF up THEN q + 1 ELSE q), e + k)

\* float(n) of a Python int
FromInt(n) == RoundP(n, 0)

FNeg(a) == <<-a[1], a[2]>>

FAdd(a, b) ==
    LET emin == Min2(a[2], b[2])
    IN  RoundP(a[1] * Pow2(a[2] - emin) + b[1] * Pow2(b[2] - emin), emin)

FSub(a, b) == FAdd(a, FNeg(b))

FMul(a, b) == RoundP(a[1] * b[1], a[2] + b[2])

\* a / b for b # 0: the quotient is taken to MantissaBits + 2 bits and a
\* sticky bit records an inexact remainder, so the rounding is exact
FDiv(a, b) ==
    IF a[1] = 0 THEN <<0, 0>>
    ELSE LET x == Abs(a[1])
             y == Abs(b[1])
             s == Max2(0, MantissaBits + 2 + BitLen(y) - BitLen(x))
             q == (x * Pow2(s)) \div y
             rem == (x * Pow2(s)) % y
             n2 == 2 * q + (IF rem # 0 THEN 1 ELSE 0)
         IN  RoundP(Sign(a[1]) * Sign(b[1]) * n2, a[2] - b[2] - s - 1)

FLe(a, b) ==
    LET emin == Min2(a[2], b[2])
    IN  a[1] * Pow2(a[2] - emin) <= b[1] * Pow2(b[2] - emin)

FLt(a, b) == ~FLe(b, a)

FZero == <<0, 0>>

FHundred == FromInt(100)

\* Python's max(a, b) and min(a, b) on floats: the first argument wins a tie
FMax(a, b) == IF FLt(a, b) THEN b ELSE a

FMin(a, b) == IF FLt(b, a) THEN b ELSE a

\* ------------------------------------------------------------ schemas.py
Category == {"Increase", "Decrease", "Control"}

AggregationMethod == {"Sum", "Average"}

Frequency == {"Daily", "Weekly", "Fortnightly", "Monthly"}

\* pydantic's validation of a Kpi body; a body that fails it is answered 422
\* before the handler runs
KpiValid(b) ==
    /\ b.category \in Category
    /\ FLt(FZero, b.weightage)
    /\ b.aggregation \in AggregationMethod
    /\ b.frequency \in Frequency

\* pydantic's validation of a KpiData body: values is a conlist with
\* min_length = 1
KpiDataValid(values) == Len(values) >= 1

\* ------------------------------------------------------------ identifiers
\* A path id is a string.  <<"lower", n>> is the 24-digit lower-case hex
\* spelling of ObjectId n, <<"upper", n>> the same digits in upper case, and
\* <<"nothex", 0>> a string that is no 24-digit hex number.
\* Python's None: the empty tuple, which differs from every document
\* (a record), every float <<m, e>> and every stored values list (non-empty)
NoneValue == << >>

\* bson's ObjectId(id_str) accepts any 24 hex digits, in either letter case
IsHex24(id_str) == id_str[1] \in {"lower", "upper"}

\* oid with the parse error swallowed: a malformed id becomes an id that
\* matches no document
oid_lenient(id_str) ==
    IF IsHex24(id_str) THEN [status |-> 200, _id |-> id_str[2]]
    ELSE [status |-> 200, _id |-> 0]

oid(id_str) ==
    IF IsHex24(id_str) THEN [status |-> 200, _id |-> id_str[2]]
    ELSE [status |-> 400, _id |-> NoneValue]

\* str(ObjectId): always the lower-case spelling
StrOfId(n) == <<"lower", n>>

\* --------------------------------------------------------- scoring engine
RECURSIVE PySumFrom(_, _, _)
PySumFrom(acc, values, i) ==
    IF i > Len(values) THEN acc
    ELSE PySumFrom(FAdd(acc, values[i]), values, i + 1)

\* sum(values): starts from 0 and adds from the left
PySum(values) == PySumFrom(FZero, values, 1)

compute_actual(values, aggregation) ==
    IF Len(values) = 0 THEN FZero
    ELSE IF aggregation = "Sum" THEN PySum(values)
    ELSE FDiv(PySum(values), FromInt(Len(values)))

clamp_percentage(p) == FMax(FZero, FMin(FHundred, p))

\* compute_percentage with the Control test of line 51's first half only:
\* the band is recognised only when start <= target
compute_percentage_ascending(category, actual, start, target) ==
    IF category \in {"Increase", "Decrease"} /\ start = target THEN FZero
    ELSE IF category = "Increase"
        THEN clamp_percentage(FMul(FDiv(FSub(actual, start), FSub(target, start)), FHundred))
    ELSE IF category = "Decrease"
        THEN clamp_percentage(FMul(FDiv(FSub(start, actual), FSub(start, target)), FHundred))
    ELSE clamp_percentage(IF FLe(start, actual) /\ FLe(actual, target)
                          THEN FHundred ELSE FZero)

compute_percentage(category, actual, start, target) ==
    IF category \in {"Increase", "Decrease"} /\ start = target THEN FZero
    ELSE IF category = "Increase"
        THEN clamp_percentage(FMul(FDiv(FSub(actual, start), FSub(target, start)), FHundred))
    ELSE IF category = "Decrease"
        THEN clamp_percentage(FMul(FDiv(FSub(start, actual), FSub(start, target)), FHundred))
    ELSE \* Control: line 51's value is overwritten by line 53's
        LET first == IF (FLe(start, actual) /\ FLe(actual, target))
                        \/ (FLe(start, target) /\ FLe(start, actual) /\ FLe(actual, target))
                     THEN FHundred ELSE FZero
            pct == IF (FLe(start, actual) /\ FLe(actual, target))
                      \/ (FLe(target, actual) /\ FLe(actual, start))
                   THEN FHundred ELSE FZero
        IN  clamp_percentage(pct)

\* ------------------------------------------------------------------ state
VARIABLES
    kpi,        \* collection 'kpi': the documents in insertion order
    kpi_data,   \* collection 'kpi_data': the documents in insertion order
    now,        \* the clock datetime.now reads; it advances with every write
    response,   \* the answer to the latest request
    saved,      \* per path id, the record save_kpi_data last returned for it
    call        \* a direct call of compute_percentage (SpecPure)

vars == <<kpi, kpi_data, now, response, saved, call>>

\* ----------------------------------------------------------------- inputs
Body(c, w, s, t, a, f) ==
    [category |-> c, weightage |-> FromInt(w), start_value |-> FromInt(s),
     target_value |-> FromInt(t), aggregation |-> a, frequency |-> f]

\* request bodies that pass validation
GoodBodies ==
    { Body("Increase", 20, 0, 100, "Sum", "Monthly"),
      Body("Decrease", 30, 40, 20, "Average", "Weekly"),
      Body("Control", 30, 20, 10, "Average", "Daily") }

\* request bodies that fail validation, one per constraint
BadBodies ==
    { Body("Increase", 0, 0, 100, "Sum", "Monthly"),
      Body("Decrease", -5, 100, 0, "Sum", "Monthly"),
      Body("Other", 20, 0, 100, "Sum", "Monthly"),
      Body("Increase", 20, 0, 100, "Median", "Monthly"),
      Body("Increase", 20, 0, 100, "Sum", "Yearly") }

KpiBodies == GoodBodies \cup BadBodies

\* the values arrays of KpiData bodies; the empty one fails validation
ValueLists ==
    { <<FromInt(50)>>, <<FromInt(10), FromInt(20)>>, << >> }

\* path ids: both spellings of every ObjectId the store can generate
\* (1..MaxKpis) and of one it never generates (0), and a string that is no
\* ObjectId
PathIds ==
    { <<c, n>> : c \in {"lower", "upper"}, n \in 0..MaxKpis }
        \cup { <<"nothex", 0>> }

\* ---------------------------------------------------------- storage layer
\* find_one: the index of the first document the filter matches, 0 for None
RECURSIVE FindKpiFrom(_, _)
FindKpiFrom(id, i) ==
    IF i > Len(kpi) THEN 0
    ELSE IF kpi[i]._id = id THEN i
    ELSE FindKpiFrom(id, i + 1)

RECURSIVE FindDataFrom(_, _)
FindDataFrom(kid, i) ==
    IF i > Len(kpi_data) THEN 0
    ELSE IF kpi_data[i].kpi_id = kid THEN i
    ELSE FindDataFrom(kid, i + 1)

FindKpiIndex(id) == FindKpiFrom(id, 1)

FindDataIndex(kid) == FindDataFrom(kid, 1)

\* db['kpi_data'].find_one({"kpi_id": kid})
FindData(kid) ==
    IF FindDataIndex(kid) = 0 THEN NoneValue ELSE kpi_data[FindDataIndex(kid)]

\* insert_one: the storage layer generates the next ObjectId
NewObjectId == Len(kpi) + 1

\* the write as insert_one(record): an earlier snapshot is kept and shadows
\* the new one
Upsert_insert(kid, record) == Append(kpi_data, record)

\* update_one({"kpi_id": kid}, {"$set": record}, upsert=True)
Upsert(kid, record) ==
    IF FindDataIndex(kid) = 0 THEN Append(kpi_data, record)
    ELSE [kpi_data EXCEPT ![FindDataIndex(kid)] = record]

HTTPError(op, code) == [op |-> op, status |-> code, body |-> NoneValue]

OK(op, body) == [op |-> op, status |-> 200, body |-> body]

KpiFields(d) ==
    [category |-> d.category, weightage |-> d.weightage,
     start_value |-> d.start_value, target_value |-> d.target_value,
     aggregation |-> d.aggregation, frequency |-> d.frequency]

\* --------------------------------------------------------------- handlers
\* POST /api/kpis
create_kpi(b) ==
    /\ IF ~KpiValid(b)
         THEN /\ response' = HTTPError("create_kpi", 422)
              /\ UNCHANGED <<kpi, now>>
         ELSE /\ Len(kpi) < MaxKpis
              /\ now < MaxClock
              /\ now' = now + 1
              /\ kpi' = Append(kpi, [_id |-> NewObjectId, created_at |-> now',
                                     updated_at |-> now'] @@ b)
              /\ response' = OK("create_kpi", [id |-> StrOfId(NewObjectId)] @@ b)
    /\ UNCHANGED <<kpi_data, saved, call>>

\* one entry of GET /api/kpis
ListEntry(it) ==
    LET kid == StrOfId(it._id)
        data == FindData(kid)
        Get(f) == IF data = NoneValue THEN NoneValue ELSE data[f]
    IN  [id |-> kid, kpi |-> KpiFields(it),
         data |-> [values |-> Get("values"), actual |-> Get("actual"),
                   percentage |-> Get("percentage"),
                   updated_at |-> Get("updated_at")]]

\* GET /api/kpis
list_kpis ==
    /\ response' = OK("list_kpis", [i \in 1..Len(kpi) |-> ListEntry(kpi[i])])
    /\ UNCHANGED <<kpi, kpi_data, now, saved, call>>

\* what GET /api/kpis/{kpi_id} answers
get_kpi_response(kpi_id) ==
    IF oid(kpi_id).status = 400 THEN HTTPError("get_kpi", 400)
    ELSE IF FindKpiIndex(oid(kpi_id)._id) = 0 THEN HTTPError("get_kpi", 404)
    ELSE OK("get_kpi", [id |-> kpi_id,
                        kpi |-> KpiFields(kpi[FindKpiIndex(oid(kpi_id)._id)]),
                        data |-> FindData(kpi_id)])

\* GET /api/kpis/{kpi_id}
get_kpi(kpi_id) ==
    /\ response' = get_kpi_response(kpi_id)
    /\ UNCHANGED <<kpi, kpi_data, now, saved, call>>

\* the status PUT /api/kpis/{kpi_id} ends with: 422 from the body's
\* validation, 400 from oid, 404 when update_one matched nothing, else 200
update_kpi_status(kpi_id, b) ==
    IF ~KpiValid(b) THEN 422
    ELSE IF oid(kpi_id).status = 400 THEN 400
    ELSE IF FindKpiIndex(oid(kpi_id)._id) = 0 THEN 404
    ELSE 200

\* PUT /api/kpis/{kpi_id}
update_kpi(kpi_id, b) ==
    /\ IF update_kpi_status(kpi_id, b) # 200
         THEN /\ response' = HTTPError("update_kpi", update_kpi_status(kpi_id, b))
              /\ UNCHANGED <<kpi, now>>
         ELSE /\ now < MaxClock
              /\ now' = now + 1
              /\ kpi' = [kpi EXCEPT ![FindKpiIndex(oid(kpi_id)._id)] =
                            [updated_at |-> now'] @@ b @@ @]
              /\ response' = OK("update_kpi", [id |-> kpi_id] @@ b)
    /\ UNCHANGED <<kpi_data, saved, call>>

\* the record with start_value and target_value passed in the wrong order
SnapshotRecord_swapped(kpi_id, doc, values, at) ==
    LET actual == compute_actual(values, doc.aggregation)
    IN  [kpi_id |-> kpi_id, values |-> values, actual |-> actual,
         percentage |-> compute_percentage(doc.category, actual,
                                           doc.target_value, doc.start_value),
         updated_at |-> at]

\* the record save_kpi_data builds from the KPI document and the payload
SnapshotRecord(kpi_id, doc, values, at) ==
    LET actual == compute_actual(values, doc.aggregation)
    IN  [kpi_id |-> kpi_id, values |-> values, actual |-> actual,
         percentage |-> compute_percentage(doc.category, actual,
                                           doc.start_value, doc.target_value),
         updated_at |-> at]

\* save_kpi_data with the existence check made without the _id filter
\* (find_one({}) answers the first KPI document, whatever the id)
save_kpi_data_anykpi(kpi_id, values) ==
    /\ IF ~KpiDataValid(values)
         THEN /\ response' = HTTPError("save_kpi_data", 422)
              /\ UNCHANGED <<kpi_data, now, saved>>
         ELSE IF oid(kpi_id).status = 400
         THEN /\ response' = HTTPError("save_kpi_data", 400)
              /\ UNCHANGED <<kpi_data, now, saved>>
         ELSE IF Len(kpi) = 0
         THEN /\ response' = HTTPError("save_kpi_data", 404)
              /\ UNCHANGED <<kpi_data, now, saved>>
         ELSE /\ now < MaxClock
              /\ now' = now + 1
              /\ LET record == SnapshotRecord(kpi_id, kpi[1], values, now')
                 IN  /\ kpi_data' = Upsert(kpi_id, record)
                     /\ response' = OK("save_kpi_data", record)
                     /\ saved' = [saved EXCEPT ![kpi_id] = record]
    /\ UNCHANGED <<kpi, call>>

\* the status POST /api/kpis/{kpi_id}/data ends with: 422 from the body's
\* validation, 400 from oid, 404 when no KPI document is found, else 200
save_kpi_data_status(kpi_id, values) ==
    IF ~KpiDataValid(values) THEN 422
    ELSE IF oid(kpi_id).status = 400 THEN 400
    ELSE IF FindKpiIndex(oid(kpi_id)._id) = 0 THEN 404
    ELSE 200

\* POST /api/kpis/{kpi_id}/data
save_kpi_data(kpi_id, values) ==
    /\ IF save_kpi_data_status(kpi_id, values) # 200
         THEN /\ response' = HTTPError("save_kpi_data",
                                       save_kpi_data_status(kpi_id, values))
              /\ UNCHANGED <<kpi_data, now, saved>>
         ELSE /\ now < MaxClock
              /\ now' = now + 1
              /\ LET record == SnapshotRecord(kpi_id,
                                   kpi[FindKpiIndex(oid(kpi_id)._id)], values, now')
                 IN  /\ kpi_data' = Upsert(kpi_id, record)
                     /\ response' = OK("save_kpi_data", record)
                     /\ saved' = [saved EXCEPT ![kpi_id] = record]
    /\ UNCHANGED <<kpi, call>>

\* the loop of weighted_score from document i on: <<total_weight, weighted_sum>>
RECURSIVE ScoreLoop(_, _, _)
ScoreLoop(i, total_weight, weighted_sum) ==
    IF i > Len(kpi) THEN <<total_weight, weighted_sum>>
    ELSE LET data == FindData(StrOfId(kpi[i]._id))
             w == kpi[i].weightage
         IN  IF data = NoneValue THEN ScoreLoop(i + 1, total_weight, weighted_sum)
             ELSE IF FLe(w, FZero) THEN ScoreLoop(i + 1, total_weight, weighted_sum)
             ELSE ScoreLoop(i + 1, FAdd(total_weight, w),
                            FAdd(weighted_sum, FMul(data.percentage, w)))

\* f"{score:.2f}": the score in hundredths, rounded half to even
Format2(score) ==
    LET n == Abs(score[1]) * 100
        d == Pow2(-score[2])
        q == n \div d
        r == n % d
    IN  IF score[2] >= 0 THEN score[1] * Pow2(score[2]) * 100
        ELSE Sign(score[1]) *
             (IF 2 * r > d \/ (2 * r = d /\ q % 2 = 1) THEN q + 1 ELSE q)

\* the body GET /api/weighted-score answers with
WeightedScoreBody ==
    LET acc == ScoreLoop(1, FZero, FZero)
    IN  IF FLe(acc[1], FZero)
          THEN [weighted_score |-> NoneValue, display |-> <<"N/A">>]
          ELSE [weighted_score |-> FDiv(acc[2], acc[1]),
                display |-> <<Format2(FDiv(acc[2], acc[1])), "%">>]

\* GET /api/weighted-score
weighted_score ==
    /\ response' = OK("weighted_score", WeightedScoreBody)
    /\ UNCHANGED <<kpi, kpi_data, now, saved, call>>

\* ---------------------------------------------------------- specification
NoCall == [state |-> "none"]

NoResponse == [op |-> "none", status |-> 0, body |-> NoneValue]

Init ==
    /\ kpi = << >>
    /\ kpi_data = << >>
    /\ now = 0
    /\ response = NoResponse
    /\ saved = [id \in PathIds |-> NoneValue]
    /\ call = NoCall

Next ==
    \/ \E b \in KpiBodies : create_kpi(b)
    \/ list_kpis
    \/ \E id \in PathIds : get_kpi(id)
    \/ \E id \in PathIds, b \in KpiBodies : update_kpi(id, b)
    \/ \E id \in PathIds, v \in ValueLists : save_kpi_data(id, v)
    \/ weighted_score

Spec == Init /\ [][Next]_vars

\* ------------------------------------- compute_percentage, called directly
\* the floats the arguments are drawn from: integers around the baselines
\* and two fractions
PureNumbers ==
    { FromInt(-10), FZero, FromInt(10), FromInt(15), FromInt(20), FromInt(25),
      FromInt(50), FromInt(100), FromInt(150),
      FDiv(FromInt(31), FromInt(2)), FDiv(FromInt(100), FromInt(3)) }

InitPure ==
    /\ kpi = << >>
    /\ kpi_data = << >>
    /\ now = 0
    /\ response = NoResponse
    /\ saved = [id \in PathIds |-> NoneValue]
    /\ call \in [state : {"called"}, category : Category, actual : PureNumbers,
                 start : PureNumbers, target : PureNumbers]

ReturnPercentage ==
    /\ call.state = "called"
    /\ call' = [state |-> "returned", category |-> call.category,
                actual |-> call.actual, start |-> call.start,
                target |-> call.target,
                result |-> compute_percentage(call.category, call.actual,
                                              call.start, call.target)]
    /\ UNCHANGED <<kpi, kpi_data, now, response, saved>>

NextPure == ReturnPercentage

SpecPure == InitPure /\ [][NextPure]_vars

\* ------------------------------------------------- vocabulary of the claims
\* the ObjectId a well-formed path id denotes, whatever its letter case
DenotedId(id_str) == id_str[2]

KpiIds == { kpi[i]._id : i \in DOMAIN kpi }

KpiById(n) == kpi[CHOOSE i \in DOMAIN kpi : kpi[i]._id = n]

\* the stored snapshots that belong to KPI n
SnapshotsOf(n) ==
    { i \in DOMAIN kpi_data : IsHex24(kpi_data[i].kpi_id)
                              /\ DenotedId(kpi_data[i].kpi_id) = n }

\* the path ids with which save_kpi_data succeeded for KPI n
Submitted(n) ==
    { K \in PathIds : IsHex24(K) /\ DenotedId(K) = n /\ saved[K] # NoneValue }

\* the record of the most recent successful submission for KPI n
LatestSubmission(n) ==
    saved[CHOOSE K \in Submitted(n) :
            \A J \in Submitted(n) : saved[J].updated_at <= saved[K].updated_at]

\* snapshot document d carries the values, actual and percentage of record r
SameSnapshot(d, r) ==
    /\ d # NoneValue
    /\ d.values = r.values
    /\ d.actual = r.actual
    /\ d.percentage = r.percentage

InRange(p) == FLe(FZero, p) /\ FLe(p, FHundred)

\* ---------------------------------------------------------------------- C1
ClaimClamp(x) ==
    IF FLt(x, FZero) THEN FZero ELSE IF FLt(FHundred, x) THEN FHundred ELSE x

ClaimPercentage(category, actual, start, target) ==
    IF category \in {"Increase", "Decrease"} /\ start = target THEN FZero
    ELSE IF category = "Increase"
        THEN ClaimClamp(FMul(FDiv(FSub(actual, start), FSub(target, start)), FHundred))
    ELSE IF category = "Decrease"
        THEN ClaimClamp(FMul(FDiv(FSub(start, actual), FSub(start, target)), FHundred))
    ELSE IF FLe(FMin(start, target), actual) /\ FLe(actual, FMax(start, target))
        THEN FHundred
    ELSE FZero

\* C1: compute_percentage returns 0 for Increase/Decrease with start = target;
\* otherwise the linear ratio times 100 clamped to [0,100] for Increase and
\* Decrease; and for Control exactly 100 when actual lies between start and
\* target (inclusive, in either order) and exactly 0 otherwise.
C1_ComputePercentage ==
    call.state = "returned" =>
        call.result = ClaimPercentage(call.category, call.actual,
                                      call.start, call.target)

\* a Control call with start above target and actual strictly between them
C1_Witness ==
    /\ call.state = "returned"
    /\ call.category = "Control"
    /\ FLt(call.target, call.actual)
    /\ FLt(call.actual, call.start)
    /\ call.result = FHundred

\* ---------------------------------------------------------------------- C2
\* KPI document k counts toward the score: it has a snapshot (with a
\* percentage, as every snapshot has) and a positive weightage
Qualifies(k) == SnapshotsOf(k._id) # {} /\ FLt(FZero, k.weightage)

\* the sums of the claim, taken in storage order over the qualifying KPIs:
\* <<sum of weightage, sum of percentage * weightage>>
RECURSIVE ClaimSums(_)
ClaimSums(i) ==
    IF i = 0 THEN <<FZero, FZero>>
    ELSE IF ~Qualifies(kpi[i]) THEN ClaimSums(i - 1)
    ELSE <<FAdd(ClaimSums(i - 1)[1], kpi[i].weightage),
           FAdd(ClaimSums(i - 1)[2],
                FMul(LatestSubmission(kpi[i]._id).percentage, kpi[i].weightage))>>

\* C2: GET /api/weighted-score answers null with display "N/A" exactly when
\* no stored KPI has both a snapshot and weightage > 0, and otherwise answers
\* (sum of percentage * weightage) / (sum of weightage) over exactly the
\* KPIs that have a snapshot and weightage > 0.
C2_WeightedScore ==
    response.op = "weighted_score" =>
        LET none == \A i \in DOMAIN kpi : ~Qualifies(kpi[i])
            isnull == response.body.weighted_score = NoneValue
        IN  /\ none <=> isnull
            /\ isnull => response.body.display = <<"N/A">>
            /\ ~none => response.body.weighted_score =
                            FDiv(ClaimSums(Len(kpi))[2], ClaimSums(Len(kpi))[1])

\* what does hold: the same statement with "has a snapshot" read as "has a
\* snapshot stored under the lower-case id str(_id)"
StoredUnderOwnId(k) == FindDataIndex(StrOfId(k._id)) # 0

RECURSIVE OwnIdSums(_)
OwnIdSums(i) ==
    IF i = 0 THEN <<FZero, FZero>>
    ELSE IF ~(StoredUnderOwnId(kpi[i]) /\ FLt(FZero, kpi[i].weightage))
        THEN OwnIdSums(i - 1)
    ELSE <<FAdd(OwnIdSums(i - 1)[1], kpi[i].weightage),
           FAdd(OwnIdSums(i - 1)[2],
                FMul(FindData(StrOfId(kpi[i]._id)).percentage, kpi[i].weightage))>>

C2_OwnIdWeightedScore ==
    response.op = "weighted_score" =>
        LET none == \A i \in DOMAIN kpi :
                        ~(StoredUnderOwnId(kpi[i]) /\ FLt(FZero, kpi[i].weightage))
            isnull == response.body.weighted_score = NoneValue
        IN  /\ none <=> isnull
            /\ isnull => response.body.display = <<"N/A">>
            /\ ~none => response.body.weighted_score =
                            FDiv(OwnIdSums(Len(kpi))[2], OwnIdSums(Len(kpi))[1])

\* ---------------------------------------------------------------------- C3
\* C3: every stored snapshot's percentage lies in [0,100], and the weighted
\* score GET /api/weighted-score answers is null or a number in [0,100].
C3_PercentagesAndScoreInRange ==
    /\ \A i \in DOMAIN kpi_data : InRange(kpi_data[i].percentage)
    /\ response.op = "weighted_score" =>
           \/ response.body.weighted_score = NoneValue
           \/ InRange(response.body.weighted_score)

\* what does hold: the first half of C3
C3_StoredPercentagesInRange ==
    \A i \in DOMAIN kpi_data : InRange(kpi_data[i].percentage)

\* ---------------------------------------------------------------------- C4
C4_Referenced ==
    \A i \in DOMAIN kpi_data :
        /\ IsHex24(kpi_data[i].kpi_id)
        /\ DenotedId(kpi_data[i].kpi_id) \in KpiIds

C4_Answer ==
    \A id \in PathIds, v \in ValueLists :
        (KpiDataValid(v) /\ IsHex24(id) /\ DenotedId(id) \notin KpiIds)
            => save_kpi_data_status(id, v) = 404

C4_Step ==
    (response'.op = "save_kpi_data" /\ response'.status = 404)
        => kpi' = kpi /\ kpi_data' = kpi_data

\* C4: save_kpi_data with a well-formed id that matches no stored KPI answers
\* 404 and leaves both collections unchanged; hence every stored snapshot's
\* kpi_id identifies a KPI of the KPI collection.
C4_NotFoundWritesNothing ==
    [](C4_Answer /\ C4_Referenced) /\ [][C4_Step]_vars

\* a snapshot is stored and a submission for an unknown id was just refused
C4_Witness ==
    /\ response.op = "save_kpi_data"
    /\ response.status = 404
    /\ Len(kpi_data) >= 1

\* ---------------------------------------------------------------------- C5
C5_ReadBack ==
    (/\ response.op = "get_kpi"
     /\ response.status = 200
     /\ saved[response.body.id] # NoneValue)
    => SameSnapshot(response.body.data, saved[response.body.id])

C5_ReadsKeep ==
    response'.op \in {"get_kpi", "list_kpis", "weighted_score"}
        => kpi_data' = kpi_data /\ kpi' = kpi

\* C5: once save_kpi_data(K, values) has returned a record, every later
\* get_kpi(K) not preceded by another save_kpi_data for K returns a snapshot
\* with that record's values, actual and percentage; get_kpi, list_kpis and
\* weighted_score change neither collection.
C5_RoundTrip == []C5_ReadBack /\ [][C5_ReadsKeep]_vars

\* the id create_kpi returned is read back after a submission and after a
\* later update_kpi of the same KPI
C5_Witness ==
    /\ response.op = "get_kpi"
    /\ response.status = 200
    /\ response.body.id = StrOfId(1)
    /\ saved[StrOfId(1)] # NoneValue
    /\ SameSnapshot(response.body.data, saved[StrOfId(1)])
    /\ KpiById(1).updated_at > saved[StrOfId(1)].updated_at

\* ---------------------------------------------------------------------- C6
\* C6: the snapshot collection holds at most one snapshot per stored KPI, and
\* that snapshot is the record of the most recent successful submission for
\* that KPI.
C6_OneSnapshotPerKpi ==
    \A n \in KpiIds :
        /\ Cardinality(SnapshotsOf(n)) <= 1
        /\ \A i \in SnapshotsOf(n) :
               SameSnapshot(kpi_data[i], LatestSubmission(n))

\* what does hold: at most one snapshot per kpi_id string, and it is the
\* record of the most recent submission made with that string
C6_OneSnapshotPerIdString ==
    /\ \A i, j \in DOMAIN kpi_data :
           kpi_data[i].kpi_id = kpi_data[j].kpi_id => i = j
    /\ \A i \in DOMAIN kpi_data :
           /\ saved[kpi_data[i].kpi_id] # NoneValue
           /\ kpi_data[i] = saved[kpi_data[i].kpi_id]

\* ---------------------------------------------------------------------- C7
C7_Answer ==
    \A id \in PathIds :
        LET expected == IF IsHex24(id) THEN 404 ELSE 400
        IN  (~IsHex24(id) \/ DenotedId(id) \notin KpiIds)
            => /\ get_kpi_response(id).status = expected
               /\ \A b \in GoodBodies : update_kpi_status(id, b) = expected
               /\ \A v \in ValueLists :
                      KpiDataValid(v) => save_kpi_data_status(id, v) = expected

C7_Step ==
    (/\ response'.op \in {"get_kpi", "update_kpi", "save_kpi_data"}
     /\ response'.status \in {400, 404})
        => kpi' = kpi /\ kpi_data' = kpi_data

\* C7: for get_kpi, update_kpi and save_kpi_data with a valid body, an id
\* that is no ObjectId is answered 400 (never 404), an ObjectId that matches
\* no stored KPI is answered 404 (never 400), and in both cases neither
\* collection changes.
C7_BadIdVsNotFound == []C7_Answer /\ [][C7_Step]_vars

\* a malformed id was just answered 400 by update_kpi while KPIs are stored
C7_Witness ==
    /\ response.op = "update_kpi"
    /\ response.status = 400
    /\ Len(kpi) >= 1

\* ---------------------------------------------------------------------- C8
\* the weighted score's loop skips KPI document k
Excluded(k) == FindDataIndex(StrOfId(k._id)) = 0 \/ FLe(k.weightage, FZero)

C8_StoredValid == \A i \in DOMAIN kpi : KpiValid(KpiFields(kpi[i]))

\* C8: every stored KPI has weightage > 0 and category, aggregation and
\* frequency in their enumerated sets, and the weighted score never excludes
\* a KPI that has a snapshot.
C8_ValidAndNeverExcluded ==
    /\ C8_StoredValid
    /\ \A i \in DOMAIN kpi : SnapshotsOf(kpi[i]._id) # {} => ~Excluded(kpi[i])

C8_Answer ==
    \A b \in BadBodies :
        /\ ~KpiValid(b)
        /\ \A id \in PathIds : update_kpi_status(id, b) = 422

C8_Step ==
    (response'.op \in {"create_kpi", "update_kpi"} /\ response'.status = 422)
        => kpi' = kpi /\ kpi_data' = kpi_data

\* what does hold: invalid definitions are rejected without a write and
\* every stored KPI is valid
C8_Validation == [](C8_Answer /\ C8_StoredValid) /\ [][C8_Step]_vars

\* ---------------------------------------------------------------------- C9
\* snapshot document d is the derived value of KPI document k
Derived(d, k) ==
    /\ d.actual = compute_actual(d.values, k.aggregation)
    /\ d.percentage = compute_percentage(k.category, d.actual,
                                         k.start_value, k.target_value)

\* C9 as claimed: every stored snapshot is the derived value of its KPI's
\* current definition.
C9_AlwaysDerived ==
    \A i \in DOMAIN kpi_data :
        Derived(kpi_data[i], KpiById(DenotedId(kpi_data[i].kpi_id)))

\* C9 amended: every stored snapshot saved after its KPI's latest create or
\* update is the derived value of the KPI's current definition.
C9_DerivedSinceLastUpdate ==
    \A i \in DOMAIN kpi_data :
        LET k == KpiById(DenotedId(kpi_data[i].kpi_id))
        IN  kpi_data[i].updated_at > k.updated_at => Derived(kpi_data[i], k)

\* a snapshot saved after its KPI was updated
C9_Witness ==
    \E i \in DOMAIN kpi_data :
        LET k == KpiById(DenotedId(kpi_data[i].kpi_id))
        IN  /\ k.updated_at > k.created_at
            /\ kpi_data[i].updated_at > k.updated_at
            /\ Derived(kpi_data[i], k)

\* --------------------------------------------------------------------- C10
\* C10: for every stored KPI and every id string with which save_kpi_data
\* succeeded for it, the snapshot written is the one list_kpis shows for the
\* KPI, the one get_kpi returns and the one weighted_score uses.
C10_ReadPathsAgree ==
    \A i \in DOMAIN kpi : \A K \in Submitted(kpi[i]._id) :
        /\ SameSnapshot(ListEntry(kpi[i]).data, saved[K])
        /\ SameSnapshot(FindData(K), saved[K])
        /\ SameSnapshot(FindData(StrOfId(kpi[i]._id)), saved[K])

====
